---- MODULE Spec2Model ----
(***************************************************************************)
(* Model of src/app.py: the Dash callback update_gantt, the two database   *)
(* helpers save_state_to_db / load_state_from_db and create_gantt_figure.  *)
(*                                                                         *)
(* Python values:                                                          *)
(*   - an optional value (a form field, the client-held gantt-store data,  *)
(*     the result of load_state_from_db) is a sequence of length <= 1:     *)
(*     None is << >> and a present value v is << v >>;                     *)
(*   - a task (a dict) is a record with the keys Task, Start, Finish,      *)
(*     Resource, Complete; a task list is a sequence of them;              *)
(*   - the text produced by json.dumps is a sequence of tokens.            *)
(* The gantt_states table is a set of rows. Its created_at / updated_at    *)
(* columns are written from datetime.now() and never read back by any code *)
(* path (load selects updated_at and drops it), so they are left out, and  *)
(* so is the clock text inside the two "... at HH:MM:SS" status messages.  *)
(* A handler runs to completion before the next one starts.                *)
(***************************************************************************)
EXTENDS Integers, Sequences, FiniteSets, TLC

\* ---------------------------------------------------------------- bounds
\* Longest task list a valid AddTask may still extend.
MaxLen == 8

\* Browser sessions sharing the one (USER_ID, PROJECT_ID) row.
Sessions == {"s1", "s2"}

\* ---------------------------------------------------------------- values
None == << >>
Some(v) == << v >>

\* Python truthiness of an optional string, number or list.
TruthyStr(o) == o # None /\ o[1] # ""
TruthyNum(o) == o # None /\ o[1] # 0
TruthyList(o) == o # None /\ o[1] # << >>

USER_ID == "default_user"
PROJECT_ID == "my_project"

DEFAULT_TASKS_LITERAL ==
    << [Task |-> "Project Planning", Start |-> "2025-11-01", Finish |-> "2025-11-05",
        Resource |-> "Project Manager", Complete |-> 100],
       [Task |-> "Requirements", Start |-> "2025-11-04", Finish |-> "2025-11-10",
        Resource |-> "Business Analyst", Complete |-> 80],
       [Task |-> "Design Phase", Start |-> "2025-11-08", Finish |-> "2025-11-15",
        Resource |-> "Design Team", Complete |-> 60],
       [Task |-> "Development Sprint 1", Start |-> "2025-11-12", Finish |-> "2025-11-20",
        Resource |-> "Dev Team", Complete |-> 40],
       [Task |-> "Development Sprint 2", Start |-> "2025-11-18", Finish |-> "2025-11-28",
        Resource |-> "Dev Team", Complete |-> 20],
       [Task |-> "Testing", Start |-> "2025-11-25", Finish |-> "2025-12-05",
        Resource |-> "QA Team", Complete |-> 0] >>

\* The ids ctx.triggered can carry; NoTrigger is the initial call (None).
NoTrigger == "none"
TriggerIds == {"add-task-btn", "manual-save-btn", "reload-btn", "auto-save-interval", NoTrigger}

VARIABLES
    db,             \* the gantt_states table: a set of rows
    DEFAULT_TASKS,  \* the module-level list DEFAULT_TASKS
    gantt_store,    \* per session: the data of dcc.Store 'gantt-store' (optional list)
    fields,         \* per session: the values of the five input fields
    call,           \* the last invocation of update_gantt: trigger, locals, result
    saved,          \* history: per key, the list last handed to save_state_to_db
    dbcall,         \* the last direct call of save_state_to_db / load_state_from_db
    rendercall      \* the last direct call of create_gantt_figure

vars == << db, DEFAULT_TASKS, gantt_store, fields, call, saved, dbcall, rendercall >>

\* ------------------------------------------------------------------ JSON
StrTok(s) == [k |-> "str", s |-> s, n |-> 0]
NumTok(n) == [k |-> "num", s |-> "", n |-> n]
Punct(p) == [k |-> "punct", s |-> p, n |-> 0]

TaskKeys == << "Task", "Start", "Finish", "Resource", "Complete" >>

\* A scalar as json.dumps writes it: a str as a string token, an int as a number.
dumps_value(key, v) == IF key = "Complete" THEN NumTok(v) ELSE StrTok(v)

\* One dict: { "k": v, ... } in the dict's insertion order.
dumps_task(t) ==
    << Punct("{") >>
    \o << StrTok("Task"), dumps_value("Task", t.Task) >>
    \o << StrTok("Start"), dumps_value("Start", t.Start) >>
    \o << StrTok("Finish"), dumps_value("Finish", t.Finish) >>
    \o << StrTok("Resource"), dumps_value("Resource", t.Resource) >>
    \o << StrTok("Complete"), dumps_value("Complete", t.Complete) >>
    \o << Punct("}") >>

RECURSIVE dumps_items(_)
dumps_items(tasks) ==
    IF tasks = << >> THEN << >>
    ELSE dumps_task(Head(tasks)) \o dumps_items(Tail(tasks))

json_dumps(tasks) == << Punct("[") >> \o dumps_items(tasks) \o << Punct("]") >>

\* Tokens of one object: "{", one key/value pair per key, "}".
ObjLen == 2 * Len(TaskKeys) + 2

loads_value(tok) == IF tok.k = "num" THEN tok.n ELSE tok.s

\* The value following key `key` inside the object starting at toks[i].
loads_field(toks, i, key) ==
    LET p == CHOOSE j \in 0..4 : toks[i + 1 + 2 * j] = StrTok(key)
    IN  loads_value(toks[i + 2 + 2 * p])

object_ok(toks, i) ==
    /\ i + ObjLen - 1 <= Len(toks)
    /\ toks[i] = Punct("{")
    /\ toks[i + ObjLen - 1] = Punct("}")
    /\ \A j \in 0..4 : toks[i + 1 + 2 * j].k = "str" /\ toks[i + 2 + 2 * j].k # "punct"
    /\ \A q \in 1..5 : \E j \in 0..4 : toks[i + 1 + 2 * j] = StrTok(TaskKeys[q])

loads_task(toks, i) ==
    [Task |-> loads_field(toks, i, "Task"), Start |-> loads_field(toks, i, "Start"),
     Finish |-> loads_field(toks, i, "Finish"), Resource |-> loads_field(toks, i, "Resource"),
     Complete |-> loads_field(toks, i, "Complete")]

\* Mutant: the objects come back in reverse order.
RECURSIVE loads_items_reversed(_, _)
loads_items_reversed(toks, i) ==
    IF i >= Len(toks) THEN << >>
    ELSE loads_items_reversed(toks, i + ObjLen) \o << loads_task(toks, i) >>

RECURSIVE loads_items(_, _)
loads_items(toks, i) ==
    IF i >= Len(toks) THEN << >>
    ELSE << loads_task(toks, i) >> \o loads_items(toks, i + ObjLen)

\* Whether json.loads accepts the text (it raises otherwise).
json_valid(toks) ==
    /\ Len(toks) >= 2
    /\ toks[1] = Punct("[")
    /\ toks[Len(toks)] = Punct("]")
    /\ (Len(toks) - 2) % ObjLen = 0
    /\ \A m \in 0..((Len(toks) - 2) \div ObjLen - 1) : object_ok(toks, 2 + m * ObjLen)

json_loads(toks) == loads_items(toks, 2)

\* ----------------------------------------------------------- the database
Row(user_id, project_id, state_data) ==
    [user_id |-> user_id, project_id |-> project_id, state_data |-> state_data]

\* Mutant: ON CONFLICT DO NOTHING, an existing row is kept.
upsert_do_nothing(table, user_id, project_id, state_json) ==
    IF \E r \in table : r.user_id = user_id /\ r.project_id = project_id
    THEN table
    ELSE table \cup { Row(user_id, project_id, state_json) }

\* Mutant: a plain INSERT, the old row stays beside the new one.
upsert_insert_only(table, user_id, project_id, state_json) ==
    table \cup { Row(user_id, project_id, state_json) }

\* INSERT ... ON CONFLICT (user_id, project_id) DO UPDATE SET state_data = ...
upsert(table, user_id, project_id, state_json) ==
    { r \in table : ~(r.user_id = user_id /\ r.project_id = project_id) }
    \cup { Row(user_id, project_id, state_json) }

\* The table after save_state_to_db returns True (connection and commit succeeded).
save_state_to_db(table, user_id, project_id, tasks) ==
    upsert(table, user_id, project_id, json_dumps(tasks))

\* SELECT ... WHERE user_id = %s AND project_id = %s
select_rows(table, user_id, project_id) ==
    { r \in table : r.user_id = user_id /\ r.project_id = project_id }

\* Lines 43-57, the body of the try block: whether it raises (exc) and, if not,
\* the value it returns. conn_ok is whether the connection and the query succeed;
\* json.loads raises on text it cannot parse.
load_try(table, user_id, project_id, conn_ok) ==
    LET result == select_rows(table, user_id, project_id)
    IN  IF ~conn_ok THEN [exc |-> TRUE, val |-> None]
        ELSE IF result = {} THEN [exc |-> FALSE, val |-> None]
        ELSE LET row == CHOOSE r \in result : TRUE
             IN  IF json_valid(row.state_data)
                 THEN [exc |-> FALSE, val |-> Some(json_loads(row.state_data))]
                 ELSE [exc |-> TRUE, val |-> None]

\* Mutant: no except clause, the exception leaves load_state_from_db.
load_call_no_except(table, user_id, project_id, conn_ok) ==
    LET t == load_try(table, user_id, project_id, conn_ok)
    IN  [raised |-> t.exc, value |-> t.val]

\* Lines 42-59: a call of load_state_from_db; the bare except turns every
\* exception into the return value None.
load_call(table, user_id, project_id, conn_ok) ==
    LET t == load_try(table, user_id, project_id, conn_ok)
    IN  [raised |-> FALSE, value |-> IF t.exc THEN None ELSE t.val]

\* The value load_state_from_db returns.
load_state_from_db(table, user_id, project_id, conn_ok) ==
    load_call(table, user_id, project_id, conn_ok).value

\* ----------------------------------------------------------- the handler
\* A local name bound to a list object: its value, and whether the object is the
\* module-level DEFAULT_TASKS itself (list.copy() makes a new object).
\* Mutant: the name is bound to DEFAULT_TASKS itself, no copy is made.
list_no_copy(l) == [val |-> l, alias |-> TRUE]

list_copy(l) == [val |-> l, alias |-> FALSE]
fresh(l) == [val |-> l, alias |-> FALSE]

\* Mutant: a first invocation starts from an empty list instead of loading.
InitialTasks_no_load(stored_data, triggered_id, loaded, defaults) ==
    IF stored_data = None THEN fresh(<< >>)
    ELSE IF triggered_id = "reload-btn"
    THEN IF TruthyList(loaded) THEN fresh(loaded[1]) ELSE list_copy(defaults)
    ELSE IF TruthyList(stored_data) THEN fresh(stored_data[1]) ELSE list_copy(defaults)

\* Mutant: an absent load falls back to an empty list, not to the default.
InitialTasks_empty_default(stored_data, triggered_id, loaded, defaults) ==
    IF stored_data = None \/ triggered_id = "reload-btn"
    THEN IF TruthyList(loaded) THEN fresh(loaded[1]) ELSE fresh(<< >>)
    ELSE IF TruthyList(stored_data) THEN fresh(stored_data[1]) ELSE list_copy(defaults)

\* Lines 182-187: the list `tasks` is bound to before the trigger is looked at.
InitialTasks(stored_data, triggered_id, loaded, defaults) ==
    IF stored_data = None \/ triggered_id = "reload-btn"
    THEN IF TruthyList(loaded) THEN fresh(loaded[1]) ELSE list_copy(defaults)
    ELSE IF TruthyList(stored_data) THEN fresh(stored_data[1]) ELSE list_copy(defaults)

\* Whether lines 182-185 run (and so call load_state_from_db).
loads_first(stored_data, triggered_id) ==
    stored_data = None \/ triggered_id = "reload-btn"

\* Mutant: the guard forgets end_date.
add_condition_no_end(triggered_id, f) ==
    /\ triggered_id = "add-task-btn"
    /\ TruthyStr(f.task_name)
    /\ TruthyStr(f.start_date)

\* Line 192: the guard of the add-task branch.
add_condition(triggered_id, f) ==
    /\ triggered_id = "add-task-btn"
    /\ TruthyStr(f.task_name)
    /\ TruthyStr(f.start_date)
    /\ TruthyStr(f.end_date)

\* Lines 193-196.
new_task(f) ==
    [Task |-> f.task_name[1], Start |-> f.start_date[1], Finish |-> f.end_date[1],
     Resource |-> IF TruthyStr(f.resource) THEN f.resource[1] ELSE "Unassigned",
     Complete |-> IF TruthyNum(f.complete_pct) THEN f.complete_pct[1] ELSE 0]

\* Mutant: the new task is inserted at the front.
list_append_front(tasks, t) == << t >> \o tasks

\* Line 197: tasks.append(new_task).
list_append(tasks, t) == Append(tasks, t)

\* Mutant: the reloaded value is taken without the check, None as no tasks.
reload_tasks_unchecked(loaded, tasks) == IF loaded = None THEN << >> ELSE loaded[1]

\* Line 206: tasks = loaded if loaded else tasks.
reload_tasks(loaded, tasks) == IF TruthyList(loaded) THEN loaded[1] ELSE tasks

\* Mutant: the manual-save branch also takes the reload button.
branch_reload_saves(triggered_id, f, tasks) ==
    IF add_condition(triggered_id, f) THEN "add"
    ELSE IF triggered_id \in {"manual-save-btn", "reload-btn"} THEN "save"
    ELSE IF triggered_id = "auto-save-interval" /\ tasks # << >> THEN "autosave"
    ELSE "none"

\* Mutant: the manual-save branch is missing.
branch_no_manual_save(triggered_id, f, tasks) ==
    IF add_condition(triggered_id, f) THEN "add"
    ELSE IF triggered_id = "reload-btn" THEN "reload"
    ELSE IF triggered_id = "auto-save-interval" /\ tasks # << >> THEN "autosave"
    ELSE "none"

\* Mutant: the auto-save branch is missing.
branch_no_autosave(triggered_id, f, tasks) ==
    IF add_condition(triggered_id, f) THEN "add"
    ELSE IF triggered_id = "manual-save-btn" THEN "save"
    ELSE IF triggered_id = "reload-btn" THEN "reload"
    ELSE "none"

\* Which branch of the if/elif chain of lines 192-210 runs.
branch(triggered_id, f, tasks) ==
    IF add_condition(triggered_id, f) THEN "add"
    ELSE IF triggered_id = "manual-save-btn" THEN "save"
    ELSE IF triggered_id = "reload-btn" THEN "reload"
    ELSE IF triggered_id = "auto-save-interval" /\ tasks # << >> THEN "autosave"
    ELSE "none"

\* Lines 189, 198, 203, 207, 210 (the clock text is left out).
status_msg(br, f) ==
    CASE br = "add" -> << "Added: '", f.task_name[1], "'" >>
      [] br = "save" -> << "Saved at" >>
      [] br = "reload" -> << "Reloaded from database" >>
      [] br = "autosave" -> << "Auto-saved at" >>
      [] OTHER -> << >>

\* Line 84: f"{row['Task']} ({row.get('Complete', 0)}%)".
TaskDisplay(t) == << t.Task, " (", t.Complete, "%)" >>

\* Mutant: an empty list is charted as it is.
create_gantt_figure_no_fallback(tasks, defaults) ==
    [title |-> "Project Gantt Chart", xaxis_title |-> "Timeline",
     index_col |-> "Resource",
     df |-> [i \in 1..Len(tasks) |->
               [Task |-> tasks[i].Task, Start |-> tasks[i].Start,
                Finish |-> tasks[i].Finish, Resource |-> tasks[i].Resource,
                Complete |-> tasks[i].Complete,
                TaskDisplay |-> TaskDisplay(tasks[i])]]]

\* Lines 79-93: the chart as the rows handed to ff.create_gantt.
create_gantt_figure(tasks, defaults) ==
    LET used == IF tasks = << >> THEN defaults ELSE tasks
    IN  [title |-> "Project Gantt Chart", xaxis_title |-> "Timeline",
         index_col |-> "Resource",
         df |-> [i \in 1..Len(used) |->
                   [Task |-> used[i].Task, Start |-> used[i].Start,
                    Finish |-> used[i].Finish, Resource |-> used[i].Resource,
                    Complete |-> used[i].Complete,
                    TaskDisplay |-> TaskDisplay(used[i])]]]

\* Lines 214-217: the five field outputs applied to the browser's fields
\* (dash.no_update leaves a field as it is).
ClearedFields ==
    [task_name |-> Some(""), start_date |-> Some(""), end_date |-> Some(""),
     resource |-> Some(""), complete_pct |-> Some(0)]

\* Mutant: the cleared values are returned whatever clear_inputs is.
field_outputs_always_clear(clear, f) == ClearedFields

field_outputs(clear, f) == IF clear THEN ClearedFields ELSE f

\* Line 200 / 190.
clear_inputs(br) == br = "add"

\* Lines 83-84: the list object handed to create_gantt_figure, after the call
\* (the DataFrame is built from a copy and TaskDisplay is added to the frame).
tasks_after_render(tasks) == tasks

\* Mutant: the exception of save_state_to_db is swallowed.
aborts_never(saves, save_ok) == FALSE

\* Lines 199, 202, 209: save_state_to_db is called outside any try block, so
\* its exception leaves update_gantt.
aborts(saves, save_ok) == saves /\ ~save_ok

\* Lines 176-217 as a function of the table, the State values and the trigger.
\* conn1 / conn2: whether the load of line 183 / 205 succeeds; save_ok: whether
\* save_state_to_db returns (it raises otherwise).
handler(table, stored_data, f, triggered_id, conn1, conn2, save_ok, defaults) ==
    LET first == loads_first(stored_data, triggered_id)
        load1 == load_call(table, USER_ID, PROJECT_ID, conn1)
        tasks0 == InitialTasks(stored_data, triggered_id, load1.value, defaults)
        br == branch(triggered_id, f, tasks0.val)
        load2 == load_call(table, USER_ID, PROJECT_ID, conn2)
        tasks == CASE br = "add" -> list_append(tasks0.val, new_task(f))
                   [] br = "reload" -> reload_tasks(load2.value, tasks0.val)
                   [] OTHER -> tasks0.val
        saves == br \in {"add", "save", "autosave"}
        load_raised == (first /\ load1.raised) \/ (br = "reload" /\ load2.raised)
        save_failed == ~load_raised /\ saves /\ ~save_ok
        raised == load_raised \/ aborts(saves, save_ok)
    IN  [first |-> first,
         loads |-> (IF first THEN << load1.value >> ELSE << >>)
                   \o (IF br = "reload" THEN << load2.value >> ELSE << >>),
         tasks0 |-> tasks0, branch |-> br, saves |-> saves,
         appended |-> ~load_raised /\ br = "add",
         tasks |-> tasks_after_render(tasks),
         save_failed |-> save_failed, raised |-> raised,
         written |-> IF ~load_raised /\ saves /\ save_ok THEN Some(tasks) ELSE None,
         status_msg |-> status_msg(br, f),
         clear_inputs |-> clear_inputs(br)]

\* One run of the callback for session s.
update_gantt(s, triggered_id, conn1, conn2, save_ok) ==
    \E f \in { fields[s] },
       h \in { handler(db, gantt_store[s], fields[s], triggered_id, conn1, conn2,
                       save_ok, DEFAULT_TASKS) } :
        /\ (~h.first) => conn1
        /\ (h.branch = "add") => Len(h.tasks0.val) < MaxLen
        /\ (h.branch # "reload") => conn2
        /\ (~h.saves) => save_ok
        /\ DEFAULT_TASKS' = IF h.appended /\ h.tasks0.alias THEN h.tasks ELSE DEFAULT_TASKS
        /\ db' = IF h.written # None
                 THEN save_state_to_db(db, USER_ID, PROJECT_ID, h.written[1])
                 ELSE db
        /\ gantt_store' = IF h.raised THEN gantt_store
                          ELSE [gantt_store EXCEPT ![s] = Some(h.tasks)]
        /\ fields' = IF h.raised THEN fields
                     ELSE [fields EXCEPT ![s] = field_outputs(h.clear_inputs, f)]
        /\ saved' = IF h.written # None
                    THEN [saved EXCEPT ![<< USER_ID, PROJECT_ID >>] = h.written]
                    ELSE saved
        /\ UNCHANGED << dbcall, rendercall >>
        /\ call' = [sid |-> s, seq |-> 1 - call.seq, triggered_id |-> triggered_id,
                    loads |-> h.loads, branch |-> h.branch,
                    save_failed |-> h.save_failed, raised |-> h.raised,
                    returned |-> ~h.raised,
                    status_msg |-> IF h.raised THEN << >> ELSE h.status_msg,
                    clear_inputs |-> ~h.raised /\ h.clear_inputs,
                    figure |-> IF h.raised THEN None
                               ELSE Some(create_gantt_figure(h.tasks, DEFAULT_TASKS'))]

\* ------------------------------------------------------------ the actions
\* What a user may have typed into the five fields.
InitialFields ==
    [task_name |-> None, start_date |-> None, end_date |-> None,
     resource |-> None, complete_pct |-> Some(0)]

TypedFields ==
    { [task_name |-> Some("T1"), start_date |-> Some("2025-01-01"),
       end_date |-> Some("2025-01-05"), resource |-> Some("Eng"), complete_pct |-> Some(50)],
      [task_name |-> Some("T2"), start_date |-> Some("2025-01-01"),
       end_date |-> Some("2025-01-05"), resource |-> None, complete_pct |-> None],
      [task_name |-> Some("T3"), start_date |-> Some("2025-03-09"),
       end_date |-> Some("2025-03-01"), resource |-> Some(""), complete_pct |-> Some(0)],
      [task_name |-> Some(""), start_date |-> Some("2025-01-01"),
       end_date |-> Some("2025-01-05"), resource |-> Some("Eng"), complete_pct |-> Some(50)],
      [task_name |-> Some("T1"), start_date |-> None,
       end_date |-> Some("2025-01-05"), resource |-> Some("Eng"), complete_pct |-> Some(50)],
      [task_name |-> Some("T1"), start_date |-> Some("2025-01-01"),
       end_date |-> Some(""), resource |-> Some("Eng"), complete_pct |-> Some(50)] }

\* What the users of two concurrent sessions type.
SharedTyped ==
    { [task_name |-> Some("T1"), start_date |-> Some("2025-01-01"),
       end_date |-> Some("2025-01-05"), resource |-> Some("Eng"), complete_pct |-> Some(50)] }

NoCall ==
    [sid |-> "", seq |-> 0, triggered_id |-> NoTrigger, loads |-> << >>, branch |-> "none",
     save_failed |-> FALSE, raised |-> FALSE, returned |-> FALSE, status_msg |-> << >>,
     clear_inputs |-> FALSE, figure |-> None]

\* The (user_id, project_id) keys: the one the callback uses and two others.
Keys ==
    { << USER_ID, PROJECT_ID >>, << USER_ID, "other_project" >>,
      << "other_user", PROJECT_ID >> }

NoDbCall == [fn |-> "", key |-> << USER_ID, PROJECT_ID >>, conn_ok |-> TRUE, result |-> None]

NoRenderCall == [tasks |-> << >>, after |-> << >>, figure |-> None]

Init ==
    /\ db = {}
    /\ DEFAULT_TASKS = DEFAULT_TASKS_LITERAL
    /\ gantt_store = [s \in Sessions |-> None]
    /\ fields = [s \in Sessions |-> InitialFields]
    /\ call = NoCall
    /\ saved = [k \in Keys |-> None]
    /\ dbcall = NoDbCall
    /\ rendercall = NoRenderCall

\* The user edits the input fields of session s, typing one of `typed`.
EditFields(s, typed) ==
    /\ \E f \in typed : fields' = [fields EXCEPT ![s] = f]
    /\ UNCHANGED << db, DEFAULT_TASKS, gantt_store, call, saved, dbcall, rendercall >>

\* The callback fired without a triggering input (page load).
InitialCall(s) ==
    \E conn1 \in BOOLEAN : update_gantt(s, NoTrigger, conn1, TRUE, TRUE)

AddTask(s) ==
    \E conn1, save_ok \in BOOLEAN : update_gantt(s, "add-task-btn", conn1, TRUE, save_ok)

ManualSave(s) ==
    \E conn1, save_ok \in BOOLEAN : update_gantt(s, "manual-save-btn", conn1, TRUE, save_ok)

Reload(s) ==
    \E conn1, conn2 \in BOOLEAN : update_gantt(s, "reload-btn", conn1, conn2, TRUE)

AutoSaveTick(s) ==
    \E conn1, save_ok \in BOOLEAN : update_gantt(s, "auto-save-interval", conn1, TRUE, save_ok)

\* One browser session.
Next ==
    \/ EditFields("s1", TypedFields)
    \/ InitialCall("s1")
    \/ AddTask("s1")
    \/ ManualSave("s1")
    \/ Reload("s1")
    \/ AutoSaveTick("s1")

Spec == Init /\ [][Next]_vars

\* Two browser sessions on the same (USER_ID, PROJECT_ID) row, handlers serialized.
NextTwo ==
    \E s \in Sessions :
        \/ EditFields(s, SharedTyped)
        \/ InitialCall(s)
        \/ AddTask(s)
        \/ ManualSave(s)
        \/ Reload(s)
        \/ AutoSaveTick(s)

SpecTwo == Init /\ [][NextTwo]_vars

\* One session whose auto-save interval keeps firing while the database is up.
AutoSaveDone(s) == update_gantt(s, "auto-save-interval", TRUE, TRUE, TRUE)

FairSpec == Init /\ [][Next]_vars /\ WF_vars(AutoSaveDone("s1"))

\* ------------------------------------------------- the store on its own
\* save_state_to_db and load_state_from_db called directly, on any key.
StoreTasks ==
    << [Task |-> "T1", Start |-> "2025-01-01", Finish |-> "2025-01-05",
        Resource |-> "Eng", Complete |-> 50],
       [Task |-> "Start", Start |-> "2025-02-01", Finish |-> "",
        Resource |-> "Unassigned", Complete |-> 0] >>

StoreLists ==
    { << >>, << StoreTasks[1] >>, << StoreTasks[1], StoreTasks[2] >>,
      << StoreTasks[2], StoreTasks[1] >>, << StoreTasks[2], StoreTasks[2] >> }

StoreSave(key, tasks) ==
    /\ db' = save_state_to_db(db, key[1], key[2], tasks)
    /\ saved' = [saved EXCEPT ![key] = Some(tasks)]
    /\ dbcall' = [fn |-> "save", key |-> key, conn_ok |-> TRUE, result |-> Some(TRUE)]
    /\ UNCHANGED << DEFAULT_TASKS, gantt_store, fields, call, rendercall >>

StoreLoad(key, conn_ok) ==
    /\ dbcall' = [fn |-> "load", key |-> key, conn_ok |-> conn_ok,
                  result |-> load_state_from_db(db, key[1], key[2], conn_ok)]
    /\ UNCHANGED << db, DEFAULT_TASKS, gantt_store, fields, call, saved, rendercall >>

NextStore ==
    \/ \E key \in Keys, tasks \in StoreLists : StoreSave(key, tasks)
    \/ \E key \in Keys, conn_ok \in BOOLEAN : StoreLoad(key, conn_ok)

SpecStore == Init /\ [][NextStore]_vars

\* ------------------------------------------------ the renderer on its own
\* Longest list handed to create_gantt_figure directly.
MaxRenderLen == 4

RenderTasks ==
    { StoreTasks[1], StoreTasks[2], DEFAULT_TASKS_LITERAL[1] }

RenderLists == UNION { [1..n -> RenderTasks] : n \in 0..MaxRenderLen }

\* create_gantt_figure called directly on a list.
Render(tasks) ==
    /\ rendercall' = [tasks |-> tasks, after |-> tasks_after_render(tasks),
                      figure |-> Some(create_gantt_figure(tasks, DEFAULT_TASKS))]
    /\ UNCHANGED << db, DEFAULT_TASKS, gantt_store, fields, call, saved, dbcall >>

NextRender == \E tasks \in RenderLists : Render(tasks)

SpecRender == Init /\ [][NextRender]_vars

\* ================================================================ claims
\* The list the store holds for the callback's key, as a successful load reads
\* it (None when there is no row).
StoredList == load_state_from_db(db, USER_ID, PROJECT_ID, TRUE)
StoredListNext == load_state_from_db(db', USER_ID, PROJECT_ID, TRUE)

\* A step that is one run of update_gantt for session s.
HandlerStep(s) == call'.seq # call.seq /\ call'.sid = s

Absent(o) == o = None \/ o = Some("")
ValidAdd(f) == ~Absent(f.task_name) /\ ~Absent(f.start_date) /\ ~Absent(f.end_date)

\* The task an AddTask with fields f is to append.
SuppliedTask(f) ==
    [Task |-> f.task_name[1], Start |-> f.start_date[1], Finish |-> f.end_date[1],
     Resource |-> IF Absent(f.resource) THEN "Unassigned" ELSE f.resource[1],
     Complete |-> IF f.complete_pct = None THEN 0 ELSE f.complete_pct[1]]

\* ---- C1
\* C1 (as claimed): a Reload returns the stored list L whenever a load reads it,
\* and leaves the in-memory list M as it was when the store holds nothing or
\* every load of the handler returns absent.
C1_ReloadKeepsOrReplaces ==
    [][\A s \in Sessions :
        (HandlerStep(s) /\ call'.triggered_id = "reload-btn" /\ gantt_store[s] # None)
        => IF \A i \in 1..Len(call'.loads) : call'.loads[i] = None
           THEN gantt_store'[s] = gantt_store[s]
           ELSE gantt_store'[s] = StoredList]_vars

\* ---- C2
\* C2: a returned AddTask with name, start and finish non-empty yields the
\* previous list with exactly one task appended: length + 1, the earlier tasks
\* unchanged and in order, the last element the supplied task (resource
\* "Unassigned" and completion 0 when absent).
C2_AddAppendsOne ==
    [][\A s \in Sessions :
        (/\ HandlerStep(s)
         /\ call'.triggered_id = "add-task-btn"
         /\ ValidAdd(fields[s])
         /\ call'.returned
         /\ gantt_store[s] # None)
        => LET old == gantt_store[s][1]
               new == gantt_store'[s][1]
           IN  /\ Len(new) = Len(old) + 1
               /\ SubSeq(new, 1, Len(old)) = old
               /\ new[Len(new)] = SuppliedTask(fields[s])]_vars

\* A returned AddTask that appended a task whose resource and completion were absent.
C2_Witness ==
    /\ call.branch = "add"
    /\ call.returned
    /\ Len(gantt_store[call.sid][1]) = Len(DEFAULT_TASKS_LITERAL) + 2
    /\ gantt_store[call.sid][1][Len(gantt_store[call.sid][1])].Resource = "Unassigned"

\* ---- C3
\* C3: an AddTask trigger with name, start or finish empty or missing changes
\* nothing: the snapshot held before is returned as it is, the store is not
\* written, the status message is empty and the input fields stay as they were.
C3_InvalidAddIsNoOp ==
    [][\A s \in Sessions :
        (HandlerStep(s) /\ call'.triggered_id = "add-task-btn" /\ ~ValidAdd(fields[s]))
        => /\ call'.returned
           /\ gantt_store[s] # None => gantt_store'[s] = gantt_store[s]
           /\ db' = db
           /\ call'.status_msg = << >>
           /\ fields'[s] = fields[s]]_vars

\* An AddTask with a missing field ran on a session that already held a
\* snapshot longer than the default.
C3_Witness ==
    /\ call.triggered_id = "add-task-btn"
    /\ call.branch = "none"
    /\ call.loads = << >>
    /\ Absent(fields[call.sid].start_date)
    /\ Len(gantt_store[call.sid][1]) > Len(DEFAULT_TASKS_LITERAL)

\* ---- C4
\* C4: on a session's first invocation the load-or-default step runs before the
\* trigger's branch; a valid AddTask then returns and saves the loaded list, or
\* the 6-task default when the load is absent, with the new task at the end.
C4_FirstCallLoadsFirst ==
    [][\A s \in Sessions :
        (HandlerStep(s) /\ gantt_store[s] = None)
        => /\ Len(call'.loads) >= 1
           /\ call'.loads[1] \in {None, StoredList}
           /\ (call'.triggered_id = "add-task-btn" /\ ValidAdd(fields[s]) /\ call'.returned)
              => LET base == IF call'.loads[1] = None THEN DEFAULT_TASKS_LITERAL
                             ELSE call'.loads[1][1]
                     want == Append(base, SuppliedTask(fields[s]))
                 IN  /\ gantt_store'[s] = Some(want)
                     /\ StoredListNext = Some(want)]_vars

\* A first invocation that was a valid AddTask on top of a list loaded from the
\* store (another session had saved it).
C4_Witness ==
    /\ call.branch = "add"
    /\ call.returned
    /\ Len(call.loads) = 1
    /\ call.loads[1] # None
    /\ Len(gantt_store[call.sid][1]) = Len(call.loads[1][1]) + 1

\* ---- C5
\* C5: once an AddTask handler has returned, the list stored for the key is the
\* returned snapshot, the new task included.
C5_AddIsSaved ==
    (call.branch = "add" /\ call.returned) => StoredList = gantt_store[call.sid]

C5_Witness ==
    /\ call.branch = "add"
    /\ call.returned
    /\ StoredList # None
    /\ Len(StoredList[1]) > Len(DEFAULT_TASKS_LITERAL)

\* ---- C6
\* C6: a load of a key returns the list last saved to that key, equal field by
\* field and in the same order, whatever was saved to other keys in between.
C6_SaveLoadRoundTrip ==
    (dbcall.fn = "load" /\ dbcall.conn_ok /\ saved[dbcall.key] # None)
    => dbcall.result = saved[dbcall.key]

\* A two-task list was saved, another key was written, and the list was loaded.
C6_Witness ==
    /\ dbcall.fn = "load"
    /\ dbcall.conn_ok
    /\ dbcall.result = Some(<< StoreTasks[2], StoreTasks[1] >>)
    /\ \E k \in Keys : k # dbcall.key /\ saved[k] # None /\ saved[k] # saved[dbcall.key]

\* ---- C7
\* C7: while nothing was ever saved for the key every load returns absent, and
\* the handler then returns the fixed 6-task default list as the snapshot.
C7_NeverSavedGivesDefault ==
    (call.returned /\ saved[<< USER_ID, PROJECT_ID >>] = None)
    => /\ \A i \in 1..Len(call.loads) : call.loads[i] = None
       /\ gantt_store[call.sid] = Some(DEFAULT_TASKS_LITERAL)
       /\ Len(gantt_store[call.sid][1]) = 6

\* A handler loaded from the never-saved store with the connection up.
C7_Witness ==
    /\ call.returned
    /\ call.loads # << >>
    /\ saved[<< USER_ID, PROJECT_ID >>] = None
    /\ db = {}

\* ---- C8
\* C8: with ManualSave and AutoSaveTick handlers of one or two sessions
\* serialized, the store holds one row for the key, that row is one whole
\* list, and after each such handler it is that handler's list: last writer wins.
C8_LastWriterWins ==
    /\ Cardinality(select_rows(db, USER_ID, PROJECT_ID)) <= 1
    /\ \A r \in db : json_valid(r.state_data)
    /\ StoredList \in {None} \cup {saved[<< USER_ID, PROJECT_ID >>]}
    /\ (call.branch \in {"save", "autosave"} /\ call.returned)
       => StoredList = gantt_store[call.sid]

\* A save by one session wrote its list while the other session holds a
\* different, longer one.
C8_Witness ==
    /\ call.branch \in {"save", "autosave"}
    /\ call.returned
    /\ \E o \in Sessions :
        /\ o # call.sid
        /\ gantt_store[o] # None
        /\ Len(gantt_store[o][1]) > Len(gantt_store[call.sid][1])
    /\ StoredList = gantt_store[call.sid]

\* ---- C9
\* C9: in one session whose auto-save tick keeps firing with the database up,
\* the stored list and the in-memory list are equal again and again.
C9_EventuallyConsistent == []<>(StoredList = gantt_store["s1"])

\* An auto-save tick wrote the in-memory list after it had diverged from a
\* longer stored list.
C9_Witness ==
    /\ call.branch = "autosave"
    /\ call.returned
    /\ StoredList = gantt_store["s1"]
    /\ gantt_store["s1"] = Some(DEFAULT_TASKS_LITERAL)
    /\ fields["s1"] = ClearedFields

\* ---- C10
\* C10: the five input fields are cleared exactly by a returned AddTask with
\* name, start and finish non-empty; every other handler leaves them as they are.
C10_ClearedIffAdded ==
    [][\A s \in Sessions :
        HandlerStep(s)
        => LET added == /\ call'.triggered_id = "add-task-btn"
                        /\ ValidAdd(fields[s])
                        /\ call'.returned
           IN  /\ call'.clear_inputs = added
               /\ fields'[s] = IF added THEN ClearedFields ELSE fields[s]]_vars

\* A returned AddTask left the fields cleared.
C10_Witness ==
    /\ call.branch = "add"
    /\ call.returned
    /\ fields[call.sid] = ClearedFields
    /\ fields[call.sid].complete_pct = Some(0)

\* ---- C11
\* Text json.loads cannot parse: a list that is opened and never closed.
MalformedText == << Punct("["), Punct("{"), StrTok("Task") >>

\* What a run of the handler gives back: whether it aborted, the returned list,
\* the status message and the list it wrote to the store.
Outcome(h) ==
    [raised |-> h.raised,
     tasks |-> IF h.raised THEN None ELSE Some(h.tasks),
     status_msg |-> IF h.raised THEN << >> ELSE h.status_msg,
     written |-> h.written]

\* C11: a failing load (connection error, or stored text that does not parse)
\* never aborts the handler, and for every trigger and every held snapshot the
\* handler then returns the same list and status and writes the same list as
\* it does when the store has no row for the key.
C11_LoadFailureIsAbsence ==
    /\ call.raised => call.save_failed
    /\ \A t \in TriggerIds, save_ok \in BOOLEAN :
        LET norow == { r \in db : ~(r.user_id = USER_ID /\ r.project_id = PROJECT_ID) }
            bad == upsert(db, USER_ID, PROJECT_ID, MalformedText)
            run(table, conn) ==
                handler(table, gantt_store["s1"], fields["s1"], t, conn, conn, save_ok,
                        DEFAULT_TASKS)
        IN  /\ Outcome(run(db, FALSE)) = Outcome(run(norow, TRUE))
            /\ Outcome(run(bad, TRUE)) = Outcome(run(norow, TRUE))
            /\ ~run(db, FALSE).raised \/ ~save_ok
            /\ ~run(bad, TRUE).raised \/ ~save_ok

\* A handler that saves nothing returned although its load failed while the
\* store held a list.
C11_Witness ==
    /\ call.returned
    /\ call.branch \in {"reload", "none"}
    /\ call.loads # << >>
    /\ \A i \in 1..Len(call.loads) : call.loads[i] = None
    /\ StoredList # None
    /\ Len(StoredList[1]) > Len(DEFAULT_TASKS_LITERAL)

\* ---- C12
\* C12: a save repeated with the same list leaves the table as the first save
\* left it: the same stored list, in the one row of that key.
C12_SaveIdempotent ==
    dbcall.fn = "save"
    => LET k == dbcall.key
       IN  /\ save_state_to_db(db, k[1], k[2], saved[k][1]) = db
           /\ Cardinality(select_rows(db, k[1], k[2])) = 1
           /\ load_state_from_db(save_state_to_db(db, k[1], k[2], saved[k][1]),
                                 k[1], k[2], TRUE) = saved[k]

\* A two-task list was saved while another key holds a different list.
C12_Witness ==
    /\ dbcall.fn = "save"
    /\ saved[dbcall.key] = Some(<< StoreTasks[1], StoreTasks[2] >>)
    /\ \E k \in Keys : k # dbcall.key /\ saved[k] = Some(<< StoreTasks[2], StoreTasks[1] >>)

\* ---- C13
\* C13: a returned ManualSave, and a returned AutoSaveTick on a non-empty list,
\* write the held list as it is: the returned snapshot is the list held before
\* and the stored list equals it.
C13_SaveWritesCurrentList ==
    [][\A s \in Sessions :
        (/\ HandlerStep(s)
         /\ call'.triggered_id \in {"manual-save-btn", "auto-save-interval"}
         /\ call'.returned
         /\ gantt_store[s] # None)
        => /\ gantt_store'[s] = gantt_store[s]
           /\ gantt_store[s][1] # << >> => StoredListNext = gantt_store[s]
           /\ (call'.triggered_id = "auto-save-interval" /\ gantt_store[s][1] = << >>)
              => db' = db]_vars

\* A ManualSave wrote the held list over a longer stored one.
C13_Witness ==
    /\ call.triggered_id = "manual-save-btn"
    /\ call.returned
    /\ call.loads = << >>
    /\ gantt_store[call.sid] = Some(DEFAULT_TASKS_LITERAL)
    /\ StoredList = gantt_store[call.sid]
    /\ fields[call.sid] = ClearedFields

\* ---- C14
\* The chart of the six seed tasks, row by row.
SeedChartRows ==
    [i \in 1..6 |->
        [Task |-> DEFAULT_TASKS_LITERAL[i].Task, Start |-> DEFAULT_TASKS_LITERAL[i].Start,
         Finish |-> DEFAULT_TASKS_LITERAL[i].Finish,
         Resource |-> DEFAULT_TASKS_LITERAL[i].Resource,
         Complete |-> DEFAULT_TASKS_LITERAL[i].Complete,
         TaskDisplay |-> << DEFAULT_TASKS_LITERAL[i].Task, " (",
                            DEFAULT_TASKS_LITERAL[i].Complete, "%)" >>]]

\* C14: rendering the empty list gives the chart of the 6-task seed list, a
\* non-empty list is charted row for row, and the list handed in (and the seed
\* list) is the same after the call.
C14_RenderEmptyIsSeed ==
    rendercall.figure # None
    => /\ rendercall.after = rendercall.tasks
       /\ DEFAULT_TASKS = DEFAULT_TASKS_LITERAL
       /\ rendercall.tasks = << >> => rendercall.figure[1].df = SeedChartRows
       /\ rendercall.tasks # << >>
          => Len(rendercall.figure[1].df) = Len(rendercall.tasks)

\* The empty list was rendered.
C14_Witness ==
    /\ rendercall.figure # None
    /\ rendercall.tasks = << >>
    /\ Len(rendercall.figure[1].df) = 6

\* ---- C15
\* C15: a handler run by Reload, by no trigger or by an AddTask with a missing
\* name, start or finish leaves the table as it is, so only a valid AddTask, a
\* ManualSave or an AutoSaveTick writes it; and with a snapshot held, a run in
\* which no branch matches returns that snapshot with an empty status.
C15_OnlySavingTriggersWrite ==
    [][\A s \in Sessions :
        HandlerStep(s)
        => LET t == call'.triggered_id
               nomatch == t = NoTrigger \/ (t = "add-task-btn" /\ ~ValidAdd(fields[s]))
           IN  /\ (t = "reload-btn" \/ nomatch) => db' = db
               /\ db' # db
                  => \/ t \in {"manual-save-btn", "auto-save-interval"}
                     \/ (t = "add-task-btn" /\ ValidAdd(fields[s]))
               /\ (nomatch /\ gantt_store[s] # None)
                  => /\ call'.returned
                     /\ gantt_store'[s] = gantt_store[s]
                     /\ call'.status_msg = << >>]_vars

\* A Reload returned a list longer than the default and left it in the store.
C15_Witness ==
    /\ call.triggered_id = "reload-btn"
    /\ call.returned
    /\ Len(call.loads) = 2
    /\ call.loads[2] # None
    /\ StoredList = call.loads[2]
    /\ Len(StoredList[1]) > Len(DEFAULT_TASKS_LITERAL)

\* ---- C16
\* C16: when save_state_to_db raises, the handler ends without a result: the
\* snapshots, the input fields and the table are what they were before the
\* run, so a task whose save failed is in no snapshot.
C16_FailedSaveChangesNothing ==
    [][\A s \in Sessions :
        (HandlerStep(s) /\ call'.save_failed)
        => /\ ~call'.returned
           /\ call'.figure = None
           /\ gantt_store' = gantt_store
           /\ fields' = fields
           /\ db' = db
           /\ DEFAULT_TASKS' = DEFAULT_TASKS]_vars

\* A valid AddTask whose save raised, on a session holding a snapshot.
C16_Witness ==
    /\ call.triggered_id = "add-task-btn"
    /\ call.branch = "add"
    /\ call.save_failed
    /\ gantt_store[call.sid] # None
    /\ ValidAdd(fields[call.sid])

\* ---- C17
\* C17 (as claimed): a handler that is no successful AddTask never replaces a
\* list the store holds by a different list.
C17_StoredListKept ==
    [][\A s \in Sessions :
        (HandlerStep(s) /\ call'.branch # "add" /\ StoredList # None)
        => StoredListNext = StoredList]_vars

\* ---- C18
\* C18: no snapshot a handler returned is empty, so every AutoSaveTick that
\* returns has taken the auto-save branch and every chart was drawn from the
\* returned list itself.
C18_SnapshotNeverEmpty ==
    /\ \A s \in Sessions : gantt_store[s] # None => Len(gantt_store[s][1]) >= 1
    /\ (call.triggered_id = "auto-save-interval" /\ ~call.raised)
       => call.branch = "autosave"
    /\ call.returned
       => Len(call.figure[1].df) = Len(gantt_store[call.sid][1])

\* A Reload whose loads all came back absent returned a snapshot.
C18_Witness ==
    /\ call.triggered_id = "reload-btn"
    /\ call.returned
    /\ call.loads = << None, None >>
    /\ StoredList # None
    /\ Len(gantt_store[call.sid][1]) = 6

\* ---- C19
\* C19: DEFAULT_TASKS keeps its six original tasks through every handler.
C19_DefaultTasksImmutable ==
    /\ DEFAULT_TASKS = DEFAULT_TASKS_LITERAL
    /\ Len(DEFAULT_TASKS) = 6

\* A valid AddTask appended to a list that came from the default fallback.
C19_Witness ==
    /\ call.branch = "add"
    /\ call.returned
    /\ call.loads = << None >>
    /\ Len(gantt_store[call.sid][1]) = Len(DEFAULT_TASKS_LITERAL) + 1
    /\ SubSeq(gantt_store[call.sid][1], 1, 6) = DEFAULT_TASKS_LITERAL

====
